---- MODULE Spec2Model ----
(***************************************************************************)
(* Model of src/python/twitter/aurora/executor/common/task_info.py:        *)
(*   assigned_task_from_mesos_task          (Assignment Decoder)           *)
(*   mesos_task_instance_from_assigned_task (Task Configuration Resolver)  *)
(*   resolve_ports                          (Port Binder)                  *)
(* The three are pure functions that share no state, so every call is one *)
(* action taken from the idle state; its inputs (wire bytes, the decoded   *)
(* assignment, the extracted config text, the refs the instantiation       *)
(* engine leaves unbound, the announced and the scheduler-assigned ports)  *)
(* are drawn from bounded sets and kept in the state with its outcome.     *)
(***************************************************************************)
EXTENDS Integers, Sequences, FiniteSets, TLC

VARIABLES pc, data, assigned_task, thermos_task, refs, instantiated, mti, error,
          has_announce, announce_portmap, portmap, ports, warnings,
          again_same, again_bare

vars == <<pc, data, assigned_task, thermos_task, refs, instantiated, mti, error,
          has_announce, announce_portmap, portmap, ports, warnings,
          again_same, again_bare>>

(***************************************************************************)
(* Bounds of the model.                                                    *)
(***************************************************************************)
MaxData == 3

MaxInstance == 1

MaxLen == 5

MaxRefs == 3

MaxPort == 1

(***************************************************************************)
(* Exceptions.  Every failure the module raises itself is a ValueError     *)
(* told apart by its message; TypeError and the schema library's           *)
(* ValueError come from statements outside any try block.                  *)
(***************************************************************************)
NoError == [exc |-> "", msg |-> "", refs |-> <<>>]

Raise(exc, msg, rs) == [exc |-> exc, msg |-> msg, refs |-> rs]

MSG_DESERIALIZE_TASK == "Could not deserialize task!"

MSG_NO_CONFIG == "Task did not have a thermos config!"

MSG_DESERIALIZE_CONFIG == "Could not deserialize thermos config"

MSG_UNBOUND_REFS == "Unexpected unbound refs"

MSG_NOT_ITERABLE == "argument is not iterable"

MSG_EXPECTED_DICT == "Expected dictionary argument"

(***************************************************************************)
(* Assignment Decoder.                                                     *)
(* task.data is a thrift struct on the wire: a run of fields closed by a   *)
(* STOP marker.  thrift_deserialize sets each field it reads on the        *)
(* record, raises EOFError when the bytes end before STOP and a TException *)
(* when it meets bytes that are no field of the protocol.                  *)
(***************************************************************************)
None_AssignedTask == [valid |-> FALSE, task |-> FALSE, instanceId |-> -1]

Empty_AssignedTask == [valid |-> TRUE, task |-> FALSE, instanceId |-> -1]

WireItems ==
  {<<"STOP", 0>>, <<"BAD", 0>>, <<"task", 0>>}
    \cup {<<"instanceId", i>> : i \in 0..MaxInstance}

RECURSIVE SeqsUpTo(_, _)
SeqsUpTo(S, n) ==
  IF n = 0 THEN {<<>>}
  ELSE LET shorter == SeqsUpTo(S, n - 1)
       IN  shorter \cup {Append(s, x) : s \in {t \in shorter : Len(t) = n - 1}, x \in S}

WireData == SeqsUpTo(WireItems, MaxData)

RECURSIVE thrift_read(_, _)
thrift_read(rec, bytes) ==
  IF bytes = <<>> THEN [exc |-> "EOFError", rec |-> None_AssignedTask]
  ELSE LET item == Head(bytes) IN
       CASE item[1] = "STOP" -> [exc |-> "", rec |-> rec]
         [] item[1] = "BAD" -> [exc |-> "TException", rec |-> None_AssignedTask]
         [] item[1] = "task" -> thrift_read([rec EXCEPT !.task = TRUE], Tail(bytes))
         [] OTHER -> thrift_read([rec EXCEPT !.instanceId = item[2]], Tail(bytes))

thrift_deserialize(base, bytes) == thrift_read(base, bytes)

DecodeCatchesOnlyTException(r) ==
  IF r.exc = "TException"
  THEN [error |-> Raise("ValueError", MSG_DESERIALIZE_TASK, <<>>), value |-> None_AssignedTask]
  ELSE IF r.exc # ""
  THEN [error |-> Raise(r.exc, "", <<>>), value |-> None_AssignedTask]
  ELSE [error |-> NoError, value |-> r.rec]

DecodeOutcome(r) ==
  IF r.exc \in {"EOFError", "TException"}
  THEN [error |-> Raise("ValueError", MSG_DESERIALIZE_TASK, <<>>), value |-> None_AssignedTask]
  ELSE [error |-> NoError, value |-> r.rec]

assigned_task_from_mesos_task(bytes) ==
  DecodeOutcome(thrift_deserialize(Empty_AssignedTask, bytes))

(***************************************************************************)
(* JSON text.  The config text is held as its sequence of lexical tokens:  *)
(* punctuation, number literals and string literals.  A string literal     *)
(* carries its content as a sequence of fragments, so that Python's        *)
(* substring test on it can be computed.                                   *)
(***************************************************************************)
\* The tokens the checked texts are made of; the parser below also takes
\* lists and commas.
Tokens ==
  { <<"{">>, <<"}">>, <<":">>,
    <<"num", "5">>, <<"str", "instance">>, <<"str", "my_", "instance">> }

Texts == SeqsUpTo(Tokens, MaxLen)

ThermosTasks == {[present |-> FALSE, text |-> <<>>]} \cup {[present |-> TRUE, text |-> t] : t \in Texts}

NoValue == [type |-> "", v |-> <<>>]

ParseFail == [ok |-> FALSE, val |-> NoValue, rest |-> <<>>]

ParseOk(val, rest) == [ok |-> TRUE, val |-> val, rest |-> rest]

RECURSIVE ParseValue(_), ParseElements(_, _), ParseMembers(_, _)
ParseValue(s) ==
  IF s = <<>> THEN ParseFail
  ELSE LET t == Head(s) IN
       CASE t[1] = "num" -> ParseOk([type |-> "int", v |-> Tail(t)], Tail(s))
         [] t[1] = "str" -> ParseOk([type |-> "str", v |-> Tail(t)], Tail(s))
         [] t[1] = "[" ->
              IF Len(s) >= 2 /\ s[2][1] = "]"
              THEN ParseOk([type |-> "list", v |-> <<>>], Tail(Tail(s)))
              ELSE ParseElements(Tail(s), <<>>)
         [] t[1] = "{" ->
              IF Len(s) >= 2 /\ s[2][1] = "}"
              THEN ParseOk([type |-> "dict", v |-> <<>>], Tail(Tail(s)))
              ELSE ParseMembers(Tail(s), <<>>)
         [] OTHER -> ParseFail

ParseElements(s, acc) ==
  LET r == ParseValue(s) IN
  IF ~r.ok \/ r.rest = <<>> THEN ParseFail
  ELSE LET t == Head(r.rest) IN
       CASE t[1] = "]" -> ParseOk([type |-> "list", v |-> Append(acc, r.val)], Tail(r.rest))
         [] t[1] = "," -> ParseElements(Tail(r.rest), Append(acc, r.val))
         [] OTHER -> ParseFail

ParseMembers(s, acc) ==
  IF Len(s) < 3 \/ s[1][1] # "str" \/ s[2][1] # ":" THEN ParseFail
  ELSE LET r == ParseValue(Tail(Tail(s))) IN
       IF ~r.ok \/ r.rest = <<>> THEN ParseFail
       ELSE LET t == Head(r.rest)
                members == Append(acc, <<Tail(s[1]), r.val>>)
            IN  CASE t[1] = "}" -> ParseOk([type |-> "dict", v |-> members], Tail(r.rest))
                  [] t[1] = "," -> ParseMembers(Tail(r.rest), members)
                  [] OTHER -> ParseFail

json_loads(text) ==
  LET r == ParseValue(text) IN
  IF r.ok /\ r.rest = <<>> THEN [exc |-> "", val |-> r.val]
  ELSE [exc |-> "ValueError", val |-> NoValue]

(***************************************************************************)
(* Python's  'instance' in json_blob : key membership on a dict, element   *)
(* membership on a list, substring on a str, TypeError on anything else.   *)
(***************************************************************************)
InstanceIn(blob) ==
  CASE blob.type = "dict" ->
         [exc |-> "", found |-> \E i \in 1..Len(blob.v) : blob.v[i][1] = <<"instance">>]
    [] blob.type = "list" ->
         [exc |-> "", found |-> \E i \in 1..Len(blob.v) :
                                   blob.v[i].type = "str" /\ blob.v[i].v = <<"instance">>]
    [] blob.type = "str" ->
         [exc |-> "", found |-> \E i \in 1..Len(blob.v) : blob.v[i] = "instance"]
    [] OTHER -> [exc |-> "TypeError", found |-> FALSE]

(***************************************************************************)
(* Refs are sequences of address components.                               *)
(***************************************************************************)
THERMOS_TASK_ID == <<"thermos", "task_id">>

THERMOS_PORTS == <<"thermos", "ports">>

THERMOS_USER == <<"thermos", "user">>

RefUniverse ==
  { THERMOS_TASK_ID, THERMOS_USER, THERMOS_PORTS,
    <<"thermos", "ports", "http">>, <<"foo", "bar">> }

RefLists == SeqsUpTo(RefUniverse, MaxRefs)

\* Ref.subscope(ref1, ref2): the remainder of ref2 below ref1 when ref2 is
\* strictly nested under ref1, else nothing.
RefSubscope(ref1, ref2) ==
  IF Len(ref2) > Len(ref1) /\ SubSeq(ref2, 1, Len(ref1)) = ref1
  THEN [some |-> TRUE, ref |-> SubSeq(ref2, Len(ref1) + 1, Len(ref2))]
  ELSE [some |-> FALSE, ref |-> <<>>]

RECURSIVE ScanRefsFirstOnly(_, _)
ScanRefsFirstOnly(all, rest) ==
  IF rest = <<>> THEN NoError
  ELSE LET ref == Head(rest) IN
       IF ref = THERMOS_TASK_ID \/ ref = THERMOS_USER \/ RefSubscope(THERMOS_PORTS, ref).some
       THEN NoError
       ELSE Raise("ValueError", MSG_UNBOUND_REFS, all)

\* The loop of lines 58-74: the first ref that passes none of the three
\* tests raises, and the message joins the whole of refs.
RECURSIVE ScanRefs(_, _)
ScanRefs(all, rest) ==
  IF rest = <<>> THEN NoError
  ELSE LET ref == Head(rest) IN
       IF ref = THERMOS_TASK_ID THEN ScanRefs(all, Tail(rest))
       ELSE IF RefSubscope(THERMOS_PORTS, ref).some THEN ScanRefs(all, Tail(rest))
       ELSE IF ref = THERMOS_USER THEN ScanRefs(all, Tail(rest))
       ELSE Raise("ValueError", MSG_UNBOUND_REFS, all)

(***************************************************************************)
(* Task Configuration Resolver.                                            *)
(***************************************************************************)
None_Mti == [schema |-> "", via |-> "", instance |-> -1]

\* <schema>.json_loads(text): the schema library builds the struct from the
\* parsed text and takes nothing but a dictionary.
schema_json_loads(schema, text) ==
  LET blob == json_loads(text).val IN
  IF blob.type = "dict"
  THEN [error |-> NoError, value |-> [schema |-> schema, via |-> "json_loads", instance |-> -1]]
  ELSE [error |-> Raise("ValueError", MSG_EXPECTED_DICT, <<>>), value |-> None_Mti]

\* task_instance_from_job(job, instanceId): the instantiation engine.  The
\* refs it leaves unbound are its answer, given here as engine_refs.
task_instance_from_job(job, instanceId, engine_refs) ==
  [mti |-> [schema |-> "MesosTaskInstance", via |-> "task_instance_from_job",
            instance |-> instanceId],
   refs |-> engine_refs]

Outcome(err, value, called, seen) ==
  [error |-> err, value |-> value, instantiated |-> called, refs |-> seen]

FromJob(at, tt, engine_refs) ==
  LET job == schema_json_loads("MesosJob", tt.text) IN
  IF job.error # NoError THEN Outcome(job.error, None_Mti, FALSE, <<>>)
  ELSE LET got == task_instance_from_job(job.value, at.instanceId, engine_refs)
           err == ScanRefs(got.refs, got.refs)
       IN  IF err # NoError THEN Outcome(err, None_Mti, TRUE, got.refs)
           ELSE Outcome(NoError, got.mti, TRUE, got.refs)

FromInstance(tt) ==
  LET r == schema_json_loads("MesosTaskInstance", tt.text) IN
  Outcome(r.error, r.value, FALSE, <<>>)

ClassifyAlwaysJob(at, tt, blob, engine_refs) == FromJob(at, tt, engine_refs)

\* Lines 53-75, from the parsed json_blob on.
Classify(at, tt, blob, engine_refs) ==
  LET has == InstanceIn(blob) IN
  IF has.exc # "" THEN Outcome(Raise(has.exc, MSG_NOT_ITERABLE, <<>>), None_Mti, FALSE, <<>>)
  ELSE IF has.found THEN FromInstance(tt)
  ELSE FromJob(at, tt, engine_refs)

ResolveParsesBeforeEmptyCheck(at, tt, engine_refs) ==
  LET parsed == json_loads(tt.text) IN
  IF parsed.exc # ""
  THEN Outcome(Raise("ValueError", MSG_DESERIALIZE_CONFIG, <<>>), None_Mti, FALSE, <<>>)
  ELSE IF ~tt.present \/ tt.text = <<>>
  THEN Outcome(Raise("ValueError", MSG_NO_CONFIG, <<>>), None_Mti, FALSE, <<>>)
  ELSE Classify(at, tt, parsed.val, engine_refs)

\* tt is what resolve_thermos_config(assigned_task.task) returned.
mesos_task_instance_from_assigned_task(at, tt, engine_refs) ==
  IF ~tt.present \/ tt.text = <<>>
  THEN Outcome(Raise("ValueError", MSG_NO_CONFIG, <<>>), None_Mti, FALSE, <<>>)
  ELSE LET parsed == json_loads(tt.text) IN
       IF parsed.exc # ""
       THEN Outcome(Raise("ValueError", MSG_DESERIALIZE_CONFIG, <<>>), None_Mti, FALSE, <<>>)
       ELSE Classify(at, tt, parsed.val, engine_refs)

(***************************************************************************)
(* Port maps: functions from port names to a port number or to the name of *)
(* another port.  kind tells an int from a str, as isinstance does.        *)
(***************************************************************************)
Names == {"http", "https", "admin"}

AliasTargets == Names \cup {"nope"}

IntPort(n) == [kind |-> "int", num |-> n, name |-> ""]

Alias(s) == [kind |-> "str", num |-> 0, name |-> s]

PortValues == {IntPort(n) : n \in 0..MaxPort} \cup {Alias(s) : s \in AliasTargets}

EmptyMap == [k \in {} |-> IntPort(0)]

AnnouncePortmaps == UNION {[D -> PortValues] : D \in SUBSET Names}

SchedulerPortmaps == UNION {[D -> {IntPort(n) : n \in 0..MaxPort}] : D \in SUBSET Names}

MergeIgnoringScheduler(base, over) == base

DictUpdateKeepsExisting(base, over) ==
  [k \in DOMAIN base \cup DOMAIN over |-> IF k \in DOMAIN base THEN base[k] ELSE over[k]]

\* dict.update
DictUpdate(base, over) ==
  [k \in DOMAIN base \cup DOMAIN over |-> IF k \in DOMAIN over THEN over[k] ELSE base[k]]

\* PortResolver.resolve: every alias is followed from entry to entry until a
\* number, a name that is no entry, or an entry already visited is met.
RECURSIVE ResolveOne(_, _, _)
ResolveOne(m, value, visited) ==
  IF value.kind = "int" THEN value
  ELSE IF value.name \notin DOMAIN m THEN value
  ELSE IF value.name \in visited THEN value
  ELSE ResolveOne(m, m[value.name], visited \cup {value.name})

PortResolver_resolve(m) == [k \in DOMAIN m |-> ResolveOne(m, m[k], {})]

\* dict.items(), in some order
RECURSIVE Items(_)
Items(m) ==
  IF DOMAIN m = {} THEN <<>>
  ELSE LET k == CHOOSE x \in DOMAIN m : TRUE
       IN  <<<<k, m[k]>>>> \o Items([x \in DOMAIN m \ {k} |-> m[x]])

\* Lines 86-88: one log.warning for each item that is no int.
RECURSIVE LogUnmapped(_)
LogUnmapped(items) ==
  IF items = <<>> THEN <<>>
  ELSE LET name == Head(items)[1]
           port == Head(items)[2]
       IN  (IF port.kind # "int" THEN <<<<name, port.name>>>> ELSE <<>>)
             \o LogUnmapped(Tail(items))

KeepEverything(m) == m

\* Line 90: the entries whose port is an int.
OnlyInts(m) == [k \in {x \in DOMAIN m : m[x].kind = "int"} |-> m[k]]

\* has_announce and announce().portmap().get() of mesos_task are announces
\* and declared.
resolve_ports(announces, declared, scheduled) ==
  LET base == IF announces THEN declared ELSE EmptyMap
      task_portmap == PortResolver_resolve(DictUpdate(base, scheduled))
  IN  [value |-> OnlyInts(task_portmap),
       warnings |-> LogUnmapped(Items(task_portmap)),
       error |-> NoError]

(***************************************************************************)
(* The state machine.                                                      *)
(***************************************************************************)
None_ThermosTask == [present |-> FALSE, text |-> <<>>]

Init ==
  /\ pc = "start"
  /\ data = <<>>
  /\ assigned_task = None_AssignedTask
  /\ thermos_task = None_ThermosTask
  /\ refs = <<>>
  /\ instantiated = FALSE
  /\ mti = None_Mti
  /\ error = NoError
  /\ has_announce = FALSE
  /\ announce_portmap = EmptyMap
  /\ portmap = EmptyMap
  /\ ports = EmptyMap
  /\ warnings = <<>>
  /\ again_same = EmptyMap
  /\ again_bare = EmptyMap

BinderVars == <<has_announce, announce_portmap, portmap, ports, warnings, again_same, again_bare>>

\* assigned_task_from_mesos_task(task) on wire bytes task.data.
Decode ==
  /\ pc = "start"
  /\ \E bytes \in WireData :
       LET out == assigned_task_from_mesos_task(bytes) IN
       /\ data' = bytes
       /\ assigned_task' = out.value
       /\ error' = out.error
       /\ pc' = IF out.error = NoError THEN "decoded" ELSE "decode_failed"
  /\ UNCHANGED <<thermos_task, refs, instantiated, mti>>
  /\ UNCHANGED BinderVars

\* The records the decoder can return.
AssignedTasks ==
  {assigned_task_from_mesos_task(bytes).value :
     bytes \in {b \in WireData : assigned_task_from_mesos_task(b).error = NoError}}

ResolveWith(at, tt, engine_refs) ==
  LET out == mesos_task_instance_from_assigned_task(at, tt, engine_refs) IN
  /\ assigned_task' = at
  /\ thermos_task' = tt
  /\ refs' = out.refs
  /\ instantiated' = out.instantiated
  /\ mti' = out.value
  /\ error' = out.error
  /\ pc' = IF out.error = NoError THEN "resolved" ELSE "resolve_failed"

\* mesos_task_instance_from_assigned_task(assigned_task) on a decoded
\* assignment.  The refs the engine leaves unbound are drawn only where the
\* engine is reached.
Resolve ==
  /\ pc = "start"
  /\ \E at \in AssignedTasks, tt \in ThermosTasks :
       IF mesos_task_instance_from_assigned_task(at, tt, <<>>).instantiated
       THEN \E engine_refs \in RefLists : ResolveWith(at, tt, engine_refs)
       ELSE ResolveWith(at, tt, <<>>)
  /\ UNCHANGED data
  /\ UNCHANGED BinderVars

\* resolve_ports(mesos_task, portmap).  Of mesos_task the binder reads the
\* announcement and nothing else.
Bind ==
  /\ pc = "start"
  /\ \E announces \in BOOLEAN, scheduled \in SchedulerPortmaps :
     \E declared \in (IF announces THEN AnnouncePortmaps ELSE {EmptyMap}) :
       LET out == resolve_ports(announces, declared, scheduled) IN
       /\ has_announce' = announces
       /\ announce_portmap' = declared
       /\ portmap' = scheduled
       /\ ports' = out.value
       /\ warnings' = out.warnings
       /\ error' = out.error
  /\ pc' = "bound"
  /\ UNCHANGED <<data, assigned_task, thermos_task, refs, instantiated, mti>>
  /\ UNCHANGED <<again_same, again_bare>>

\* The binder is run again on its own result, for the same task and for a
\* task without an announcement.
Rebind ==
  /\ pc = "bound"
  /\ again_same' = resolve_ports(has_announce, announce_portmap, ports).value
  /\ again_bare' = resolve_ports(FALSE, EmptyMap, ports).value
  /\ pc' = "rebound"
  /\ UNCHANGED <<data, assigned_task, thermos_task, refs, instantiated, mti, error>>
  /\ UNCHANGED <<has_announce, announce_portmap, portmap, ports, warnings>>

Next == Decode \/ Resolve \/ Bind \/ Rebind

Spec == Init /\ [][Next]_vars

(***************************************************************************)
(* The error kinds of the specification, as the code raises them.          *)
(***************************************************************************)
DecodeError == error.exc = "ValueError" /\ error.msg = MSG_DESERIALIZE_TASK

MissingConfigError == error.exc = "ValueError" /\ error.msg = MSG_NO_CONFIG

MalformedConfigError == error.exc = "ValueError" /\ error.msg = MSG_DESERIALIZE_CONFIG

UnboundReferenceError == error.exc = "ValueError" /\ error.msg = MSG_UNBOUND_REFS

ResolverReturned == pc \in {"resolved", "resolve_failed"}

ConfigText == thermos_task.present /\ thermos_task.text # <<>>

ParsedBlob == json_loads(thermos_task.text)

HasInstanceKey(blob) == \E i \in 1..Len(blob.v) : blob.v[i][1] = <<"instance">>

JobTemplateInput ==
  /\ ConfigText
  /\ ParsedBlob.exc = ""
  /\ ParsedBlob.val.type = "dict"
  /\ ~HasInstanceKey(ParsedBlob.val)

InstanceConfigInput ==
  /\ ConfigText
  /\ ParsedBlob.exc = ""
  /\ ParsedBlob.val.type = "dict"
  /\ HasInstanceKey(ParsedBlob.val)

Whitelisted(ref) ==
  \/ ref = <<"thermos", "task_id">>
  \/ ref = <<"thermos", "user">>
  \/ (Len(ref) > 2 /\ ref[1] = "thermos" /\ ref[2] = "ports")

Offending == {refs[i] : i \in {j \in 1..Len(refs) : ~Whitelisted(refs[j])}}

Reported == {error.refs[i] : i \in 1..Len(error.refs)}

\* C1: for a JobTemplate input the resolver reaches the instantiation engine
\* and returns the instantiated configuration if and only if every ref the
\* engine left unbound is thermos.task_id, thermos.user or nested under
\* thermos.ports; otherwise it fails, whatever the order of the refs.
C1_WhitelistDecides ==
  (ResolverReturned /\ JobTemplateInput) =>
    /\ instantiated
    /\ (pc = "resolved") <=> (\A i \in 1..Len(refs) : Whitelisted(refs[i]))
    /\ pc = "resolved" => (error = NoError /\ mti.via = "task_instance_from_job"
                            /\ mti.instance = assigned_task.instanceId)
    /\ pc = "resolve_failed" => (UnboundReferenceError /\ mti = None_Mti)

C1_Witness ==
  /\ pc = "resolved"
  /\ JobTemplateInput
  /\ refs = << <<"thermos", "user">>, <<"thermos", "ports", "http">>, <<"thermos", "task_id">> >>

\* C2: when a JobTemplate fails on unbound refs, the error reports exactly
\* the refs that match none of the three whitelist rules.
C2_ReportsExactlyOffenders ==
  (pc = "resolve_failed" /\ UnboundReferenceError) => Reported = Offending

\* C3: for an InstanceConfig input the resolver returns the directly decoded
\* instance configuration, never reaches the instantiation engine, validates
\* no ref and does not fail.
C3_InstanceBypasses ==
  (ResolverReturned /\ InstanceConfigInput) =>
    /\ pc = "resolved"
    /\ error = NoError
    /\ ~instantiated
    /\ refs = <<>>
    /\ mti = [schema |-> "MesosTaskInstance", via |-> "json_loads", instance |-> -1]

C3_Witness ==
  /\ pc = "resolved"
  /\ InstanceConfigInput
  /\ thermos_task.text = << <<"{">>, <<"str", "instance">>, <<":">>, <<"num", "5">>, <<"}">> >>

(***************************************************************************)
(* Port Binder.                                                            *)
(***************************************************************************)
BinderReturned == pc \in {"bound", "rebound"}

Declared == IF has_announce THEN announce_portmap ELSE EmptyMap

DeclaredOnly == DOMAIN Declared \ DOMAIN portmap

\* C4: every name the scheduler allocates is bound to the scheduler's number,
\* whatever the announcement declares for it; a name only the announcement
\* declares keeps its declared number, and one declared as an alias of a
\* scheduler-allocated name gets that name's scheduler number.
C4_SchedulerWins ==
  BinderReturned =>
    /\ \A k \in DOMAIN portmap : k \in DOMAIN ports /\ ports[k] = portmap[k]
    /\ \A k \in DeclaredOnly :
         /\ Declared[k].kind = "int" => (k \in DOMAIN ports /\ ports[k] = Declared[k])
         /\ (Declared[k].kind = "str" /\ Declared[k].name \in DOMAIN portmap) =>
              (k \in DOMAIN ports /\ ports[k] = portmap[Declared[k].name])

C4_Witness ==
  /\ pc = "bound"
  /\ has_announce
  /\ announce_portmap = [k \in {"http", "https"} |->
                           IF k = "http" THEN Alias("https") ELSE IntPort(1)]
  /\ portmap = [k \in {"http"} |-> IntPort(0)]
  /\ ports = [k \in {"http", "https"} |-> IF k = "http" THEN IntPort(0) ELSE IntPort(1)]

AliasResolved == PortResolver_resolve(DictUpdate(Declared, portmap))

WarningsFor(k) == {i \in 1..Len(warnings) : warnings[i][1] = k}

\* C5: the result holds exactly the entries of the alias-resolved mapping
\* whose value is a number; every entry whose value is still a string is
\* absent and has exactly one warning naming the port and its target; kept
\* entries have none; the call does not fail.
C5_Partition ==
  BinderReturned =>
    /\ error = NoError
    /\ DOMAIN ports = {k \in DOMAIN AliasResolved : AliasResolved[k].kind = "int"}
    /\ \A k \in DOMAIN ports : ports[k] = AliasResolved[k] /\ WarningsFor(k) = {}
    /\ \A k \in DOMAIN AliasResolved \ DOMAIN ports :
         /\ Cardinality(WarningsFor(k)) = 1
         /\ \A i \in WarningsFor(k) : warnings[i] = <<k, AliasResolved[k].name>>
    /\ \A i \in 1..Len(warnings) : warnings[i][1] \in DOMAIN AliasResolved \ DOMAIN ports

C5_Witness ==
  /\ pc = "bound"
  /\ has_announce
  /\ announce_portmap = [k \in {"http"} |-> Alias("nope")]
  /\ portmap = EmptyMap
  /\ ports = EmptyMap
  /\ warnings = << <<"http", "nope">> >>

\* C6: a non-empty config text that is invalid JSON, or valid JSON that is no
\* object, fails with MalformedConfigError, before variant classification
\* and instantiation, and returns nothing.
C6_MalformedForAnyNonObject ==
  (ResolverReturned /\ ConfigText /\ (ParsedBlob.exc # "" \/ ParsedBlob.val.type # "dict")) =>
    /\ pc = "resolve_failed"
    /\ MalformedConfigError
    /\ ~instantiated
    /\ mti = None_Mti

\* C7: an empty or absent config text fails with MissingConfigError, which is
\* decided before parsing; nothing is returned and the instantiation engine
\* is not reached.
C7_MissingConfig ==
  (ResolverReturned /\ ~ConfigText) =>
    /\ pc = "resolve_failed"
    /\ MissingConfigError
    /\ ~MalformedConfigError
    /\ mti = None_Mti
    /\ ~instantiated
    /\ refs = <<>>

C7_Witness ==
  /\ pc = "resolve_failed"
  /\ thermos_task.present
  /\ thermos_task.text = <<>>
  /\ MissingConfigError

(***************************************************************************)
(* Assignment Decoder.                                                     *)
(***************************************************************************)
DecoderReturned == pc \in {"decoded", "decode_failed"}

Stops == {i \in 1..Len(data) : data[i][1] = "STOP"}

FirstStop == CHOOSE i \in Stops : \A j \in Stops : i <= j

\* The items read before the struct ends (all of them when it never ends).
ReadUpTo == IF Stops = {} THEN Len(data) ELSE FirstStop - 1

Malformed == \E i \in 1..ReadUpTo : data[i][1] = "BAD"

Truncated == Stops = {} /\ ~Malformed

InstanceFields == {i \in 1..ReadUpTo : data[i][1] = "instanceId"}

\* C8: the decoder either returns the record with every field the wire
\* carries set, or fails with DecodeError; truncated and malformed bytes both
\* surface as DecodeError, never as another error, and a failure returns no
\* record.
C8_DecodeOrDecodeError ==
  DecoderReturned =>
    /\ (pc = "decode_failed") <=> (Truncated \/ Malformed)
    /\ pc = "decode_failed" => (DecodeError /\ assigned_task = None_AssignedTask)
    /\ pc = "decoded" =>
         /\ error = NoError
         /\ assigned_task.valid
         /\ assigned_task.task <=> (\E i \in 1..ReadUpTo : data[i][1] = "task")
         /\ IF InstanceFields = {} THEN assigned_task.instanceId = -1
            ELSE \E i \in InstanceFields :
                   /\ \A j \in InstanceFields : j <= i
                   /\ assigned_task.instanceId = data[i][2]

C8_Witness ==
  /\ pc = "decode_failed"
  /\ Truncated
  /\ Len(data) = 2
  /\ DecodeError

EmptyAnnouncement == ~has_announce \/ announce_portmap = EmptyMap

\* C9, as claimed: an empty announcement or an empty scheduler allocation
\* yields an empty result and no failure.
C9_EitherEmptyYieldsEmpty ==
  (BinderReturned /\ (EmptyAnnouncement \/ portmap = EmptyMap)) =>
    (ports = EmptyMap /\ error = NoError)

\* C9, amended: an empty announcement yields exactly the scheduler
\* allocation, an empty scheduler allocation yields only entries the
\* announcement declares, so the result is empty when both are empty; none
\* of these calls fails.
C9_EmptyInputs ==
  BinderReturned =>
    /\ EmptyAnnouncement => (ports = portmap /\ warnings = <<>> /\ error = NoError)
    /\ portmap = EmptyMap => (DOMAIN ports \subseteq DOMAIN Declared /\ error = NoError)
    /\ (EmptyAnnouncement /\ portmap = EmptyMap) => ports = EmptyMap

C9_Witness ==
  /\ pc = "bound"
  /\ has_announce
  /\ announce_portmap = EmptyMap
  /\ portmap = EmptyMap
  /\ ports = EmptyMap

\* C10: binding again with the binder's own result as the scheduler map
\* returns that result, for the same task and for a task that announces
\* nothing.
C10_Idempotent ==
  pc = "rebound" => (again_same = ports /\ again_bare = ports)

C10_Witness ==
  /\ pc = "rebound"
  /\ has_announce
  /\ ports # EmptyMap
  /\ warnings # <<>>
  /\ DOMAIN portmap # {}
  /\ again_same = ports

====
